---- MODULE Spec2Model ----
(***************************************************************************)
(* Model of the fixture generator (tools/python/database/database_seeder)  *)
(* and of the validation harness (tools/python/testing/test_database).     *)
(*                                                                         *)
(* The store is an sqlite file.  `db` is what is committed in the file,    *)
(* `tx` is what the open connection sees: its own uncommitted writes       *)
(* included.  conn.commit() makes db equal to tx, conn.close() drops the   *)
(* uncommitted writes.                                                     *)
(*                                                                         *)
(* The rows of the store keep their keys and references.  The other values *)
(* of a row (attribute bands, quest texts, progress times, ...) are         *)
(* computed from the generator's draws into `row`, under SpecValues.        *)
(* uuid4-derived identifiers are modelled as identifiers not yet in the    *)
(* table (identifier collisions are not modelled).                         *)
(***************************************************************************)
EXTENDS Integers, Sequences, FiniteSets, TLC

(* ----------------------------- bounds ---------------------------------- *)
\* characters written by one seeding run (the code passes 15)
NumCharacters == 2
\* quests, and levels, written by one seeding run (the code passes 25 and 20)
NumRoots == 1
\* rows written by each dependent phase of one seeding run (the code passes 8..150)
NumDependents == 1
\* largest count a direct caller of a generator passes
MaxCount == 1
\* number of calls a direct caller of the seeder makes
MaxCalls == 1
\* largest count passed by the script that generates one batch of characters
MaxBatch == 2
\* largest character level drawn (the code draws 1..20)
LevelCap == 1
\* number of level-1 warrior skills in the reference data of a provisioned store
NumSkills == 6

(* ------------------------- program constants --------------------------- *)
classes == {"warrior", "mage", "assassin"}
MaxSkillsPerCharacter == 5
slots == <<"weapon", "chest", "ring">>
stat_keys == {"total_battles", "battles_won", "total_experience_gained",
              "max_combo", "items_collected", "quests_completed", "levels_completed"}
battle_types == {"level", "arena", "boss", "pvp"}

\* the tables the harness expects
expected_tables ==
    {"characters", "character_attributes", "skills", "character_skills",
     "equipment", "character_equipment", "items", "character_inventory",
     "quests", "character_quests", "levels", "character_level_progress",
     "battle_records", "status_effects", "achievements", "character_achievements",
     "save_data", "statistics", "config", "game_logs", "database_version"}

\* the tables show_database_stats counts
stats_tables ==
    {"characters", "character_skills", "character_equipment", "character_inventory",
     "quests", "character_quests", "levels", "character_level_progress",
     "battle_records", "status_effects", "achievements", "character_achievements",
     "save_data", "statistics", "config", "game_logs"}

\* generate_all_sample_data's phases, in call order
PhaseOrder == <<"characters", "quests", "levels", "battle_records", "quest_progress",
                "level_progress", "achievements", "save_data", "logs">>

Generators == {PhaseOrder[k] : k \in 1..Len(PhaseOrder)}

\* the count generate_all_sample_data passes to a phase
PhaseCount(g) ==
    CASE g = "characters" -> NumCharacters
      [] g \in {"quests", "levels"} -> NumRoots
      [] OTHER -> NumDependents

NULL == 0

(* ------------------------------ the store ------------------------------ *)
\* a store file without any table
EmptyStore ==
    [readable |-> TRUE, tables |-> {}, skills |-> <<>>, equipment |-> {}, items |-> {}, achievements |-> {},
     characters |-> {}, character_skills |-> {}, character_equipment |-> {},
     character_inventory |-> {}, statistics |-> {},
     quests |-> {}, levels |-> {}, battle_records |-> {}, character_quests |-> {},
     character_level_progress |-> {}, character_achievements |-> {},
     save_data |-> {}, game_logs |-> {}]

\* reference rows of a provisioned store: skills in rowid order, one weapon
\* anyone may carry, one chest for level-2 warriors, one ring for mages, one
\* consumable
RichSkills ==
    [k \in 1..NumSkills |-> [id |-> k, class_requirement |-> "warrior", level_requirement |-> 1]]
    \o << [id |-> NumSkills + 1, class_requirement |-> "warrior", level_requirement |-> 2],
          [id |-> NumSkills + 2, class_requirement |-> "mage", level_requirement |-> 2] >>

RichEquipment ==
    { [id |-> 1, slot |-> "weapon", level_requirement |-> 1, class_requirement |-> "none"],
      [id |-> 2, slot |-> "chest", level_requirement |-> 2, class_requirement |-> "warrior"],
      [id |-> 3, slot |-> "ring", level_requirement |-> 1, class_requirement |-> "mage"] }

\* what the creation script leaves behind: every table, with or without reference rows
Provisioned(rich) ==
    [EmptyStore EXCEPT !.tables = expected_tables,
                       !.skills = IF rich THEN RichSkills ELSE <<>>,
                       !.equipment = IF rich THEN RichEquipment ELSE {},
                       !.items = IF rich THEN {[id |-> 1, type |-> "consumable"]} ELSE {},
                       !.achievements = IF rich THEN {1} ELSE {}]

\* outcome of a statement: the store after it, or the exception it raised
Ok(st) == [ok |-> TRUE, st |-> st, err |-> "none"]
Raise(e, st) == [ok |-> FALSE, st |-> st, err |-> e]

\* a statement on tables `ts` runs: the file is an sqlite database and holds them
HasTables(st, ts) == st.readable /\ ts \subseteq st.tables

Ids(rows) == {r.id : r \in rows}

\* an identifier no row of the table carries
FreshId(rows) == Cardinality(rows) + 1

Min(a, b) == IF a <= b THEN a ELSE b

Prefix(s, n) == SubSeq(s, 1, Min(n, Len(s)))

\* what `r` did, then `F` on the resulting store unless `r` raised
Then(r, F(_)) == IF r.ok THEN F(r.st) ELSE r

(* ----------------------- character generation -------------------------- *)
\* the INSERT OR REPLACE INTO characters of one loop iteration
InsertCharacter(st, id, cls, lvl, isp) ==
    IF ~HasTables(st, {"characters"}) THEN Raise("sqlite3.Error", st)
    ELSE Ok([st EXCEPT !.characters =
                {c \in @ : c.id # id}
                \cup {[id |-> id, class |-> cls, level |-> lvl, is_player |-> isp]}])

\* the skill query without its level_requirement clause
EligibleSkillsAnyLevel(st, cls, lvl) ==
    SelectSeq(st.skills, LAMBDA s : s.class_requirement = cls)

\* the skills a character of this class and level may learn, in rowid order
EligibleSkills(st, cls, lvl) ==
    SelectSeq(st.skills, LAMBDA s : s.class_requirement = cls /\ s.level_requirement <= lvl)

\* at most five of the eligible skills are given to the character
add_skills_to_character(st, cid, cls, lvl) ==
    IF ~HasTables(st, {"skills"}) THEN Raise("sqlite3.Error", st)
    ELSE LET picked == Prefix(EligibleSkills(st, cls, lvl), MaxSkillsPerCharacter)
             rows == {[character_id |-> cid, skill_id |-> picked[k].id] : k \in 1..Len(picked)}
         IN  IF rows = {} THEN Ok(st)
             ELSE IF ~HasTables(st, {"character_skills"}) THEN Raise("sqlite3.Error", st)
             ELSE Ok([st EXCEPT !.character_skills =
                        {r \in @ : ~(\E n \in rows : n.character_id = r.character_id
                                                     /\ n.skill_id = r.skill_id)} \cup rows])

\* the equipment query without its level_requirement clause
EligibleEquipmentAnyLevel(st, slot, cls, lvl) ==
    {e \in st.equipment : /\ e.slot = slot
                          /\ (e.class_requirement = "none" \/ e.class_requirement = cls)}

\* the equipment a character may carry in a slot
EligibleEquipment(st, slot, cls, lvl) ==
    {e \in st.equipment : /\ e.slot = slot
                          /\ e.level_requirement <= lvl
                          /\ (e.class_requirement = "none" \/ e.class_requirement = cls)}

\* what ORDER BY RANDOM() LIMIT 1 may return for each slot: an eligible id, or NULL
EquipmentDraws(st, cls, lvl) ==
    {d \in [1..Len(slots) -> Ids(st.equipment) \cup {NULL}] :
        \A k \in 1..Len(slots) :
            LET el == EligibleEquipment(st, slots[k], cls, lvl)
            IN  IF el = {} THEN d[k] = NULL ELSE d[k] \in Ids(el)}

\* the slot loop leaving at the first slot without eligible equipment
add_equipment_until_empty_slot(st, cid, draw) ==
    IF ~HasTables(st, {"equipment"}) THEN Raise("sqlite3.Error", st)
    ELSE LET rows == {[character_id |-> cid, equipment_id |-> draw[k], slot |-> slots[k]] :
                         k \in {j \in 1..Len(slots) : \A m \in 1..j : draw[m] # NULL}}
         IN  IF rows = {} THEN Ok(st)
             ELSE IF ~HasTables(st, {"character_equipment"}) THEN Raise("sqlite3.Error", st)
             ELSE Ok([st EXCEPT !.character_equipment =
                        {r \in @ : ~(\E n \in rows : n.character_id = r.character_id
                                                     /\ n.slot = r.slot)} \cup rows])

\* one row per slot for which the query returned an equipment
add_equipment_to_character(st, cid, draw) ==
    IF ~HasTables(st, {"equipment"}) THEN Raise("sqlite3.Error", st)
    ELSE LET rows == {[character_id |-> cid, equipment_id |-> draw[k], slot |-> slots[k]] :
                         k \in {j \in 1..Len(slots) : draw[j] # NULL}}
         IN  IF rows = {} THEN Ok(st)
             ELSE IF ~HasTables(st, {"character_equipment"}) THEN Raise("sqlite3.Error", st)
             ELSE Ok([st EXCEPT !.character_equipment =
                        {r \in @ : ~(\E n \in rows : n.character_id = r.character_id
                                                     /\ n.slot = r.slot)} \cup rows])

\* what ORDER BY RANDOM() LIMIT 5 may return: up to five distinct items, in any order
ItemDraws(st) ==
    LET el == {it.id : it \in {x \in st.items : x.type \in {"consumable", "material"}}}
        n == Min(5, Cardinality(el))
    IN  {d \in [1..n -> el] : \A a, b \in 1..n : a # b => d[a] # d[b]}

\* one inventory row per returned item, slot_index counting from 0
add_items_to_character(st, cid, draw) ==
    IF ~HasTables(st, {"items"}) THEN Raise("sqlite3.Error", st)
    ELSE LET rows == {[character_id |-> cid, item_id |-> draw[k], slot_index |-> k - 1] :
                         k \in 1..Len(draw)}
         IN  IF rows = {} THEN Ok(st)
             ELSE IF ~HasTables(st, {"character_inventory"}) THEN Raise("sqlite3.Error", st)
             ELSE Ok([st EXCEPT !.character_inventory =
                        {r \in @ : ~(\E n \in rows : n.character_id = r.character_id
                                                     /\ n.slot_index = r.slot_index)} \cup rows])

\* one statistics row per known key
add_statistics_to_character(st, cid) ==
    IF ~HasTables(st, {"statistics"}) THEN Raise("sqlite3.Error", st)
    ELSE Ok([st EXCEPT !.statistics =
                @ \cup {[character_id |-> cid, stat_key |-> k] : k \in stat_keys}])

\* the player flag given to the second character instead of the first
IsPlayerFlagSecond(i) == i = 1

\* the i-th character of a batch is the player exactly when i = 0
IsPlayerFlag(i) == i = 0

\* one iteration of generate_sample_characters' loop
CharacterIteration(st, i, cls, lvl, eq_draw, item_draw) ==
    LET cid == FreshId(st.characters)
        r1 == InsertCharacter(st, cid, cls, lvl, IsPlayerFlag(i))
        r2 == Then(r1, LAMBDA s : add_skills_to_character(s, cid, cls, lvl))
        r3 == Then(r2, LAMBDA s : add_equipment_to_character(s, cid, eq_draw))
        r4 == Then(r3, LAMBDA s : add_items_to_character(s, cid, item_draw))
    IN  Then(r4, LAMBDA s : add_statistics_to_character(s, cid))

(* --------------------- quests, levels (root entities) ------------------ *)
\* the quest INSERT OR REPLACE falling on the same id every time
QuestIterationSameId(st) ==
    IF ~HasTables(st, {"quests"}) THEN Raise("sqlite3.Error", st)
    ELSE Ok([st EXCEPT !.quests = @ \cup {1}])

\* one iteration of generate_sample_quests' loop: a quest under a new id
QuestIteration(st) ==
    IF ~HasTables(st, {"quests"}) THEN Raise("sqlite3.Error", st)
    ELSE Ok([st EXCEPT !.quests = @ \cup {FreshId(@)}])

LevelIteration(st) ==
    IF ~HasTables(st, {"levels"}) THEN Raise("sqlite3.Error", st)
    ELSE Ok([st EXCEPT !.levels = @ \cup {FreshId(@)}])

(* ------------------------- dependent generators ------------------------ *)
NoPools ==
    [character_ids |-> {}, quest_ids |-> {}, level_ids |-> {}, achievement_ids |-> {},
     player_characters |-> {}]

\* the pool reads with the is_player = 1 clause of the save-slot query left out
ReadPoolsAnyCharacter(g, st) ==
    LET needs == CASE g = "battle_records" -> {"characters"}
                   [] g = "quest_progress" -> {"characters", "quests"}
                   [] g = "level_progress" -> {"characters", "levels"}
                   [] g = "achievements" -> {"characters", "achievements"}
                   [] g = "save_data" -> {"characters"}
                   [] g = "logs" -> {"characters"}
                   [] OTHER -> {}
    IN  IF needs # {} /\ ~HasTables(st, needs) THEN [ok |-> FALSE, pools |-> NoPools]
        ELSE [ok |-> TRUE, pools |->
                [character_ids |-> IF "characters" \in needs /\ g # "save_data"
                                   THEN Ids(st.characters) ELSE {},
                 quest_ids |-> IF "quests" \in needs THEN st.quests ELSE {},
                 level_ids |-> IF "levels" \in needs THEN st.levels ELSE {},
                 achievement_ids |-> IF "achievements" \in needs THEN st.achievements ELSE {},
                 player_characters |-> IF g = "save_data" THEN Ids(st.characters) ELSE {}]]

\* pools that are not rebuilt from the store: the ids another store gave
ReadPoolsNotRebuilt(g, st) ==
    LET needs == CASE g = "battle_records" -> {"characters"}
                   [] g = "quest_progress" -> {"characters", "quests"}
                   [] g = "level_progress" -> {"characters", "levels"}
                   [] g = "achievements" -> {"characters", "achievements"}
                   [] g = "save_data" -> {"characters"}
                   [] g = "logs" -> {"characters"}
                   [] OTHER -> {}
    IN  IF needs # {} /\ ~HasTables(st, needs) THEN [ok |-> FALSE, pools |-> NoPools]
        ELSE [ok |-> TRUE, pools |->
                [character_ids |-> IF "characters" \in needs /\ g # "save_data"
                                   THEN {1, 2} ELSE {},
                 quest_ids |-> IF "quests" \in needs THEN {1} ELSE {},
                 level_ids |-> IF "levels" \in needs THEN {1} ELSE {},
                 achievement_ids |-> IF "achievements" \in needs THEN st.achievements ELSE {},
                 player_characters |-> IF g = "save_data"
                                       THEN Ids({c \in st.characters : c.is_player}) ELSE {}]]

\* the SELECTs a generator runs before its loop
ReadPools(g, st) ==
    LET needs == CASE g = "battle_records" -> {"characters"}
                   [] g = "quest_progress" -> {"characters", "quests"}
                   [] g = "level_progress" -> {"characters", "levels"}
                   [] g = "achievements" -> {"characters", "achievements"}
                   [] g = "save_data" -> {"characters"}
                   [] g = "logs" -> {"characters"}
                   [] OTHER -> {}
    IN  IF needs # {} /\ ~HasTables(st, needs) THEN [ok |-> FALSE, pools |-> NoPools]
        ELSE [ok |-> TRUE, pools |->
                [character_ids |-> IF "characters" \in needs /\ g # "save_data"
                                   THEN Ids(st.characters) ELSE {},
                 quest_ids |-> IF "quests" \in needs THEN st.quests ELSE {},
                 level_ids |-> IF "levels" \in needs THEN st.levels ELSE {},
                 achievement_ids |-> IF "achievements" \in needs THEN st.achievements ELSE {},
                 player_characters |-> IF g = "save_data"
                                       THEN Ids({c \in st.characters : c.is_player}) ELSE {}]]

\* what random.choice may return; on an empty list it raises IndexError and the
\* draw is not used
Choice(S) == IF S = {} THEN {NULL} ELSE S

\* random.choice(pool): the drawn element, IndexError on an empty pool
RandomChoice(pool, drawn, st) == IF pool = {} THEN Raise("IndexError", st) ELSE Ok(st)

\* the battle loop with the level query run for every battle type
BattleIterationAlwaysLevel(st, pools, c, btype, lv) ==
    LET r1 == RandomChoice(pools.character_ids, c, st)
        level_id == IF btype = "level" THEN lv
                    ELSE IF st.levels = {} THEN NULL ELSE CHOOSE l \in st.levels : TRUE
    IN  Then(r1, LAMBDA s :
            IF ~HasTables(s, {"battle_records"}) THEN Raise("sqlite3.Error", s)
            ELSE Ok([s EXCEPT !.battle_records = @ \cup
                       {[id |-> FreshId(@), character_id |-> c, level_id |-> level_id,
                         battle_type |-> btype]}]))

\* one iteration of generate_sample_battle_records' loop
BattleIteration(st, pools, c, btype, lv) ==
    LET r1 == RandomChoice(pools.character_ids, c, st)
        r2 == Then(r1, LAMBDA s : IF btype = "level" /\ ~HasTables(s, {"levels"})
                                  THEN Raise("sqlite3.Error", s) ELSE Ok(s))
        level_id == IF btype = "level" THEN lv ELSE NULL
    IN  Then(r2, LAMBDA s :
            IF ~HasTables(s, {"battle_records"}) THEN Raise("sqlite3.Error", s)
            ELSE Ok([s EXCEPT !.battle_records = @ \cup
                       {[id |-> FreshId(@), character_id |-> c, level_id |-> level_id,
                         battle_type |-> btype]}]))

\* one iteration of generate_sample_quest_progress' loop
QuestProgressIteration(st, pools, c, q) ==
    LET r1 == RandomChoice(pools.character_ids, c, st)
        r2 == Then(r1, LAMBDA s : RandomChoice(pools.quest_ids, q, s))
    IN  Then(r2, LAMBDA s :
            IF ~HasTables(s, {"character_quests"}) THEN Raise("sqlite3.Error", s)
            ELSE Ok([s EXCEPT !.character_quests =
                       {r \in @ : ~(r.character_id = c /\ r.quest_id = q)}
                       \cup {[character_id |-> c, quest_id |-> q]}]))

\* one iteration of generate_sample_level_progress' loop
LevelProgressIteration(st, pools, c, l) ==
    LET r1 == RandomChoice(pools.character_ids, c, st)
        r2 == Then(r1, LAMBDA s : RandomChoice(pools.level_ids, l, s))
    IN  Then(r2, LAMBDA s :
            IF ~HasTables(s, {"character_level_progress"}) THEN Raise("sqlite3.Error", s)
            ELSE Ok([s EXCEPT !.character_level_progress =
                       {r \in @ : ~(r.character_id = c /\ r.level_id = l)}
                       \cup {[character_id |-> c, level_id |-> l]}]))

\* one iteration of generate_sample_achievements' loop
AchievementIteration(st, pools, c, a) ==
    LET r1 == RandomChoice(pools.character_ids, c, st)
        r2 == Then(r1, LAMBDA s : RandomChoice(pools.achievement_ids, a, s))
    IN  Then(r2, LAMBDA s :
            IF ~HasTables(s, {"character_achievements"}) THEN Raise("sqlite3.Error", s)
            ELSE Ok([s EXCEPT !.character_achievements =
                       {r \in @ : ~(r.character_id = c /\ r.achievement_id = a)}
                       \cup {[character_id |-> c, achievement_id |-> a]}]))

\* one iteration of generate_sample_save_data's loop: slot i+1, a random player character
SaveIteration(st, pools, i, c) ==
    LET r1 == RandomChoice(pools.player_characters, c, st)
    IN  Then(r1, LAMBDA s :
            IF ~HasTables(s, {"save_data"}) THEN Raise("sqlite3.Error", s)
            ELSE Ok([s EXCEPT !.save_data =
                       {r \in @ : r.slot_id # i + 1}
                       \cup {[slot_id |-> i + 1, character_id |-> c]}]))

\* one iteration of generate_sample_logs' loop: a character is drawn only when
\* the coin says so
LogIteration(st, pools, coin, c) ==
    LET r1 == IF coin THEN RandomChoice(pools.character_ids, c, st) ELSE Ok(st)
        character_id == IF coin THEN c ELSE NULL
    IN  Then(r1, LAMBDA s :
            IF ~HasTables(s, {"game_logs"}) THEN Raise("sqlite3.Error", s)
            ELSE Ok([s EXCEPT !.game_logs = @ \cup
                       {[id |-> FreshId(@), character_id |-> character_id]}]))

(* ------------------------------- state --------------------------------- *)
VARIABLES
    mode,      \* who runs: "cli" (the seeder's main), "api" (a direct caller of the seeder),
               \* "batch" (a script that connects, generates one batch of characters and
               \* disconnects), "test" (the harness), "check" (a script that connects,
               \* calls the harness' schema check twice and disconnects), "values"
               \* (the computation of the values of one row from its random draws),
               \* "stats" (the seeder's main given the stats command)
    pc,        \* position of the running program
    op,        \* the operation in progress
    command,   \* sys.argv[2] of the seeder
    env,       \* what the environment answered: script readable, store openable, file present
    conn,      \* self.conn: "none", "open" or "closed"
    db,        \* committed content of the store file
    tx,        \* content the open connection sees
    call,      \* the generator call in progress: its count, loop index, pools
    started,   \* the phases generate_all_sample_data has called, in order
    stages,    \* the stages main has started, in order
    calls,     \* calls made by the direct caller
    out,       \* results and messages returned or printed
    test,      \* the harness' bookkeeping
    row        \* the values a generator computed for the row it inserts next

vars == <<mode, pc, op, command, env, conn, db, tx, call, started, stages, calls, out, test,
          row>>

NoCall ==
    [gen |-> "none", count |-> 0, i |-> 0, pools |-> NoPools, pre |-> EmptyStore,
     batch |-> <<>>]

NoOut ==
    [init_report |-> "none", seed_result |-> "none", stats |-> "none", exit_status |-> -1,
     error |-> "none", skipped |-> FALSE]

NoTest ==
    [schema |-> "none", missing |-> {}, extra |-> {}, entries |-> <<>>,
     queries |-> "none", passed_tests |-> 0, result |-> "none"]

\* a file that is not an sqlite database: every statement raises
Unreadable == [EmptyStore EXCEPT !.readable = FALSE]

\* a provisioned store earlier calls left rows in: a batch of two characters
\* (a warrior, the player, and a mage), one quest and one level
Seeded ==
    LET st0 == Provisioned(TRUE)
        it == CHOOSE d \in ItemDraws(st0) : TRUE
        eq1 == CHOOSE d \in EquipmentDraws(st0, "warrior", 1) : TRUE
        st1 == CharacterIteration(st0, 0, "warrior", 1, eq1, it).st
        eq2 == CHOOSE d \in EquipmentDraws(st1, "mage", 1) : TRUE
        st2 == CharacterIteration(st1, 1, "mage", 1, eq2, it).st
    IN  LevelIteration(QuestIteration(st2).st).st

\* the stores the seeder's main may be pointed at
CliStores == {EmptyStore, Unreadable, Provisioned(FALSE), Provisioned(TRUE)}

\* the stores a direct caller may be pointed at
ApiStores == CliStores \cup {Seeded}

\* the stores the harness may be pointed at: a table set, and a row or none in
\* each table the cardinality queries read
TestStore(tabs, w, q, l, a, b) ==
    [EmptyStore EXCEPT
        !.tables = tabs,
        !.characters = IF "characters" \in tabs
                       THEN {[id |-> 1, class |-> IF w THEN "warrior" ELSE "mage",
                              level |-> 1, is_player |-> TRUE]} ELSE {},
        !.quests = IF q /\ "quests" \in tabs THEN {1} ELSE {},
        !.levels = IF l /\ "levels" \in tabs THEN {1} ELSE {},
        !.achievements = IF a /\ "achievements" \in tabs THEN {1} ELSE {},
        !.battle_records = IF b /\ "battle_records" \in tabs
                           THEN {[id |-> 1, character_id |-> 1, level_id |-> NULL,
                                  battle_type |-> "arena"]} ELSE {}]

TestStores ==
    {Unreadable} \cup
    {TestStore(tabs, w, q, l, a, b) :
        tabs \in {expected_tables, expected_tables \ {"quests"},
                  expected_tables \cup {"sqlite_sequence"}, {}},
        w \in BOOLEAN, q \in BOOLEAN, l \in BOOLEAN, a \in BOOLEAN, b \in BOOLEAN}

NoRow == [table |-> "none"]

\* the state when the program of mode `m` starts
InitFor(m) ==
    /\ mode = m
    /\ db \in CASE m = "cli" -> CliStores
              [] m \in {"test", "check"} -> TestStores
              [] m = "stats" -> TestStores \cup ApiStores
              [] m = "values" -> {EmptyStore}
              [] OTHER -> ApiStores
    /\ tx = db
    /\ pc = CASE m \in {"cli", "stats"} -> "main"
              [] m = "test" -> "test_main"
              [] m = "values" -> "values"
              [] OTHER -> "connect"
    /\ row = NoRow
    /\ op = CASE m \in {"cli", "stats"} -> "main" [] m = "test" -> "tests" [] OTHER -> "api"
    /\ command = "none"
    /\ env = [script_ok |-> "unknown", store_ok |-> "unknown", file_exists |-> "unknown"]
    /\ conn = "none"
    /\ call = NoCall
    /\ started = <<>>
    /\ stages = <<>>
    /\ calls = 0
    /\ out = NoOut
    /\ test = NoTest

(* ------------------------- connection handling ------------------------- *)
\* DatabaseSeeder.connect / DatabaseTester.connect: the position after it returned
\* a caller that does not look at what connect() returned
AfterConnectUnchecked(ok) ==
    CASE op = "generate_all" -> "next_phase"
      [] op = "show_stats" -> "stats_queries"
      [] op = "tests" -> "test_table_structure"
      [] mode = "batch" -> "batch_call"
      [] mode = "check" -> "check_first"
      [] OTHER -> "api_idle"

\* where connect()'s caller goes on: every caller returns at once on False
AfterConnect(ok) ==
    CASE op = "generate_all" -> IF ok THEN "next_phase" ELSE "seed_returned"
      [] op = "show_stats" -> IF ok THEN "stats_queries" ELSE "stats_returned"
      [] op = "tests" -> IF ok THEN "test_table_structure" ELSE "tests_returned"
      [] mode = "batch" -> IF ok THEN "batch_call" ELSE "done"
      [] mode = "check" -> IF ok THEN "check_first" ELSE "done"
      [] OTHER -> IF ok THEN "api_idle" ELSE "done"

Connect ==
    /\ pc = "connect"
    /\ \E ok \in BOOLEAN :
        /\ env' = [env EXCEPT !.store_ok = IF ok THEN "yes" ELSE "no"]
        /\ conn' = IF ok THEN "open" ELSE conn
        /\ tx' = db
        /\ pc' = AfterConnect(ok)
        /\ out' = IF ok THEN out
                  ELSE [out EXCEPT !.error = "connect",
                                   !.seed_result = IF op = "generate_all" THEN "false" ELSE @]
        /\ test' = IF ~ok /\ op = "tests" THEN [test EXCEPT !.result = "false"] ELSE test
    /\ UNCHANGED <<mode, row, op, command, db, call, started, stages, calls>>

\* where the operation whose finally-block disconnected returns to
AfterDisconnect ==
    CASE op = "generate_all" -> "seed_returned"
      [] op = "show_stats" -> "stats_returned"
      [] op = "tests" -> "tests_returned"
      [] OTHER -> "done"

\* conn.close() behaving as a commit
CloseStoreKeepsWrites(committed, seen) == seen

\* conn.close() drops what was not committed
CloseStore(committed, seen) == committed

\* a disconnect() that leaves the connection as it is
CloseNothing(connection) == connection

\* if self.conn: self.conn.close()
Close(connection) == IF connection = "none" THEN connection ELSE "closed"

\* disconnect(): closes self.conn when there is one
Disconnect ==
    /\ pc = "disconnect"
    /\ conn' = Close(conn)
    /\ db' = IF conn = "open" THEN CloseStore(db, tx) ELSE db
    /\ tx' = db'
    /\ pc' = AfterDisconnect
    /\ UNCHANGED <<mode, row, op, command, env, call, started, stages, calls, out, test>>

\* a SELECT that leaves a bookkeeping table behind
AfterSelectCreates(st) ==
    IF st.readable THEN [st EXCEPT !.tables = @ \cup {"sqlite_sequence"}] ELSE st

\* a SELECT that empties the table it reads
AfterSelectDeletes(st) ==
    IF st.readable THEN [st EXCEPT !.characters = {}] ELSE st

\* a SELECT statement: the store after it
AfterSelect(st) == st

(* ------------------------------- main ---------------------------------- *)
Commands == {"init", "seed", "stats", "full", "bogus", "none"}

\* main(): dispatch on sys.argv[2] ("none": no command given, "bogus": an unknown one)
MainDispatch ==
    /\ pc = "main"
    /\ \E cmd \in IF mode = "stats" THEN {"stats"} ELSE Commands :
        /\ command' = cmd
        /\ pc' = CASE cmd \in {"init", "full"} -> "execute_script"
                   [] cmd \in {"seed", "stats"} -> "connect"
                   [] OTHER -> "exit"
        /\ op' = CASE cmd = "seed" -> "generate_all"
                   [] cmd = "stats" -> "show_stats"
                   [] OTHER -> op
        /\ stages' = CASE cmd \in {"init", "full"} -> <<"init">>
                       [] cmd = "seed" -> <<"seed">>
                       [] cmd = "stats" -> <<"stats">>
                       [] OTHER -> <<>>
    /\ UNCHANGED <<mode, row, env, conn, db, tx, call, started, calls, out, test>>

\* what the creation script does to a store it runs on
ApplyScript(st, rich) == IF st.tables = {} THEN Provisioned(rich) ELSE st

\* execute_script(path): open() the script, self.cursor.executescript, self.conn.commit;
\* any exception, the AttributeError of a cursor that is None included, gives False
execute_script(connection, st, script_ok, rich) ==
    IF ~script_ok THEN Raise("script", st)
    ELSE IF connection # "open" THEN Raise("AttributeError", st)
    ELSE IF ~st.readable THEN Raise("sqlite3.Error", st)
    ELSE Ok(ApplyScript(st, rich))

ExecuteScript ==
    /\ pc = "execute_script"
    /\ \E script_ok \in BOOLEAN, rich \in BOOLEAN :
        LET r == execute_script(conn, tx, script_ok, rich)
        IN  /\ env' = [env EXCEPT !.script_ok = IF script_ok THEN "yes" ELSE "no"]
            /\ tx' = r.st
            /\ db' = IF r.ok THEN r.st ELSE db
            /\ out' = [out EXCEPT !.init_report = IF r.ok THEN "success" ELSE "failure",
                                  !.error = r.err]
            /\ pc' = CASE mode # "cli" -> "api_idle"
                       [] r.ok /\ command = "full" -> "connect"
                       [] OTHER -> "exit"
            /\ op' = IF mode = "cli" /\ r.ok /\ command = "full" THEN "generate_all" ELSE op
            /\ stages' = IF mode = "cli" /\ r.ok /\ command = "full"
                         THEN Append(stages, "seed") ELSE stages
    /\ UNCHANGED <<mode, row, command, conn, call, started, calls, test>>

\* main ignores what generate_all_sample_data returned
SeedReturned ==
    /\ pc = "seed_returned"
    /\ pc' = IF command = "full" THEN "connect" ELSE "exit"
    /\ op' = IF command = "full" THEN "show_stats" ELSE op
    /\ stages' = IF command = "full" THEN Append(stages, "stats") ELSE stages
    /\ UNCHANGED <<mode, row, command, env, conn, db, tx, call, started, calls, out, test>>

\* the body of show_database_stats: counts, then the GROUP BY reports; an
\* exception is printed and dropped
StatsQueries ==
    /\ pc = "stats_queries"
    /\ out' = [out EXCEPT !.stats = IF HasTables(tx, stats_tables) THEN "shown" ELSE "error",
                          !.error = IF HasTables(tx, stats_tables) THEN @ ELSE "sqlite3.Error"]
    /\ tx' = AfterSelect(tx)
    /\ pc' = "disconnect"
    /\ UNCHANGED <<mode, row, op, command, env, conn, db, call, started, stages, calls, test>>

StatsReturned ==
    /\ pc = "stats_returned"
    /\ pc' = "exit"
    /\ UNCHANGED <<mode, row, op, command, env, conn, db, tx, call, started, stages, calls, out, test>>

\* the status the seeder process ends with: main returns None and nothing calls sys.exit
MainExitStatus(o) == 0

Exit ==
    /\ pc = "exit"
    /\ out' = [out EXCEPT !.exit_status = MainExitStatus(out)]
    /\ pc' = "done"
    /\ UNCHANGED <<mode, row, op, command, env, conn, db, tx, call, started, stages, calls, test>>

(* ----------------------- generate_all_sample_data ---------------------- *)
StartCall(g, c) ==
    [gen |-> g, count |-> c, i |-> 0, pools |-> NoPools, pre |-> tx, batch |-> <<>>]

\* the try-block of generate_all_sample_data: the next generator, or the end
NextPhase ==
    /\ pc = "next_phase"
    /\ IF Len(started) < Len(PhaseOrder)
       THEN LET g == PhaseOrder[Len(started) + 1]
            IN  /\ call' = StartCall(g, PhaseCount(g))
                /\ started' = Append(started, g)
                /\ pc' = "gen_begin"
                /\ out' = out
       ELSE /\ out' = [out EXCEPT !.seed_result = "true"]
            /\ pc' = "disconnect"
            /\ UNCHANGED <<call, started>>
    /\ UNCHANGED <<mode, row, op, command, env, conn, db, tx, stages, calls, test>>

\* an exception inside the try-block: generate_all_sample_data returns False;
\* a direct caller of a generator gets the exception
Except ==
    /\ pc = "raised"
    /\ out' = IF op = "generate_all" THEN [out EXCEPT !.seed_result = "false"] ELSE out
    /\ pc' = IF op = "generate_all" THEN "disconnect" ELSE "done"
    /\ UNCHANGED <<mode, row, op, command, env, conn, db, tx, call, started, stages, calls, test>>

(* ---------------------------- direct caller ---------------------------- *)
ApiGenerate ==
    /\ pc = "api_idle"
    /\ calls < MaxCalls
    /\ \E g \in Generators, c \in 0..MaxCount :
        call' = StartCall(g, c)
    /\ calls' = calls + 1
    /\ pc' = "gen_begin"
    /\ UNCHANGED <<mode, row, op, command, env, conn, db, tx, started, stages, out, test>>

ApiExecuteScript ==
    /\ pc = "api_idle"
    /\ calls < MaxCalls
    /\ calls' = calls + 1
    /\ pc' = "execute_script"
    /\ UNCHANGED <<mode, row, op, command, env, conn, db, tx, call, started, stages, out, test>>

ApiDisconnect ==
    /\ pc = "api_idle"
    /\ pc' = "disconnect"
    /\ UNCHANGED <<mode, row, op, command, env, conn, db, tx, call, started, stages, calls, out, test>>

\* the script's one call: seeder.generate_sample_characters(count)
BatchGenerate ==
    /\ pc = "batch_call"
    /\ \E c \in 0..MaxBatch :
        call' = StartCall("characters", c)
    /\ pc' = "gen_begin"
    /\ UNCHANGED <<mode, row, op, command, env, conn, db, tx, started, stages, calls, out, test>>

(* ------------------------- one generator call -------------------------- *)
\* entry of a generator: the SELECTs that build its pools; generate_sample_save_data
\* returns at once, without a commit, when there is no player character
GenBegin ==
    /\ pc = "gen_begin"
    /\ LET r == ReadPools(call.gen, tx)
           skip == r.ok /\ call.gen = "save_data" /\ r.pools.player_characters = {}
       IN  /\ call' = [call EXCEPT !.pools = r.pools]
           /\ out' = [out EXCEPT !.error = IF r.ok THEN @ ELSE "sqlite3.Error",
                                 !.skipped = skip]
           /\ pc' = CASE ~r.ok -> "raised"
                      [] skip -> "gen_done"
                      [] OTHER -> "gen_loop"
    /\ UNCHANGED <<mode, row, op, command, env, conn, db, tx, started, stages, calls, test>>

InLoop(g) == pc = "gen_loop" /\ call.gen = g /\ call.i < call.count

\* the effect of one loop iteration whose statements gave `r`
Iterate(r, ids) ==
    /\ tx' = r.st
    /\ call' = IF r.ok THEN [call EXCEPT !.i = @ + 1, !.batch = @ \o ids] ELSE call
    /\ out' = IF r.ok THEN out ELSE [out EXCEPT !.error = r.err]
    /\ pc' = IF r.ok THEN pc ELSE "raised"
    /\ UNCHANGED <<mode, row, op, command, env, conn, db, started, stages, calls, test>>

generate_sample_characters ==
    /\ InLoop("characters")
    /\ \E cls \in classes, lvl \in 1..LevelCap :
        \E eq \in EquipmentDraws(tx, cls, lvl), it \in ItemDraws(tx) :
            Iterate(CharacterIteration(tx, call.i, cls, lvl, eq, it),
                    <<FreshId(tx.characters)>>)

generate_sample_quests ==
    /\ InLoop("quests")
    /\ Iterate(QuestIteration(tx), <<FreshId(tx.quests)>>)

generate_sample_levels ==
    /\ InLoop("levels")
    /\ Iterate(LevelIteration(tx), <<FreshId(tx.levels)>>)

generate_sample_battle_records ==
    /\ InLoop("battle_records")
    /\ \E c \in Choice(call.pools.character_ids), btype \in battle_types :
        \E lv \in IF btype = "level" THEN Choice(tx.levels) ELSE {NULL} :
            Iterate(BattleIteration(tx, call.pools, c, btype, lv), <<>>)

generate_sample_quest_progress ==
    /\ InLoop("quest_progress")
    /\ \E c \in Choice(call.pools.character_ids), q \in Choice(call.pools.quest_ids) :
        Iterate(QuestProgressIteration(tx, call.pools, c, q), <<>>)

generate_sample_level_progress ==
    /\ InLoop("level_progress")
    /\ \E c \in Choice(call.pools.character_ids), l \in Choice(call.pools.level_ids) :
        Iterate(LevelProgressIteration(tx, call.pools, c, l), <<>>)

generate_sample_achievements ==
    /\ InLoop("achievements")
    /\ \E c \in Choice(call.pools.character_ids), a \in Choice(call.pools.achievement_ids) :
        Iterate(AchievementIteration(tx, call.pools, c, a), <<>>)

generate_sample_save_data ==
    /\ InLoop("save_data")
    /\ \E c \in Choice(call.pools.player_characters) :
        Iterate(SaveIteration(tx, call.pools, call.i, c), <<>>)

generate_sample_logs ==
    /\ InLoop("logs")
    /\ \E coin \in BOOLEAN :
        \E c \in IF coin THEN Choice(call.pools.character_ids) ELSE {NULL} :
            Iterate(LogIteration(tx, call.pools, coin, c), <<>>)

\* the store refuses a statement or the commit (disk full, file locked, ...)
IOError ==
    /\ pc = "gen_loop"
    /\ out' = [out EXCEPT !.error = "io_error"]
    /\ pc' = "raised"
    /\ UNCHANGED <<mode, row, op, command, env, conn, db, tx, call, started, stages, calls, test>>

\* a generator that forgets its commit
CommitNothing(committed, seen) == committed

\* conn.commit(): what the connection wrote becomes the content of the file
Commit(committed, seen) == seen

\* the self.conn.commit() that ends a generator
GenCommit ==
    /\ pc = "gen_loop"
    /\ call.i = call.count
    /\ db' = Commit(db, tx)
    /\ pc' = "gen_done"
    /\ UNCHANGED <<mode, row, op, command, env, conn, tx, call, started, stages, calls, out, test>>

\* the generator returned to its caller
GenReturn ==
    /\ pc = "gen_done"
    /\ pc' = CASE op = "generate_all" -> "next_phase"
               [] mode = "batch" -> "disconnect"
               [] OTHER -> "api_idle"
    /\ UNCHANGED <<mode, row, op, command, env, conn, db, tx, call, started, stages, calls, out, test>>

(* --------------------------- validation harness ------------------------ *)
\* harness main(): os.path.exists(database_path)
TestMain ==
    /\ pc = "test_main"
    /\ \E exists \in BOOLEAN :
        /\ env' = [env EXCEPT !.file_exists = IF exists THEN "yes" ELSE "no"]
        /\ pc' = IF exists THEN "connect" ELSE "tests_returned"
        /\ test' = IF exists THEN test ELSE [test EXCEPT !.result = "false"]
    /\ UNCHANGED <<mode, row, op, command, conn, db, tx, call, started, stages, calls, out>>

\* test_table_structure(): passes when no expected table is missing
TableStructurePasses(missing, extra) == missing = {}

\* where test_table_structure's caller goes on: run_all_tests with its next
\* test; the script with its second call, then with disconnect, and nowhere
\* when the call raised
AfterTableStructure(verdict) ==
    CASE pc = "test_table_structure" -> "test_sample_queries"
      [] verdict = "raised" -> "done"
      [] pc = "check_first" -> "check_again"
      [] OTHER -> "disconnect"

\* run_all_tests counts a test that returned true; one that raised is not counted
TestTableStructure ==
    /\ pc \in {"test_table_structure", "check_first", "check_again"}
    /\ LET missing == expected_tables \ tx.tables
           extra == tx.tables \ expected_tables
           verdict == CASE ~tx.readable -> "raised"
                        [] TableStructurePasses(missing, extra) -> "pass"
                        [] OTHER -> "fail"
       IN  /\ test' = [test EXCEPT !.schema = verdict,
                                   !.missing = IF tx.readable THEN missing ELSE {},
                                   !.extra = IF tx.readable THEN extra ELSE {},
                                   !.passed_tests = IF verdict = "pass" /\ op = "tests"
                                                    THEN @ + 1 ELSE @]
           /\ pc' = AfterTableStructure(verdict)
    /\ tx' = AfterSelect(tx)
    /\ UNCHANGED <<mode, row, op, command, env, conn, db, call, started, stages, calls, out>>

expected_min == 1

\* the five (name, sql, expected_min) entries of test_sample_queries, as
\* (table read, rows counted)
SampleQueries(st) ==
    << <<"characters", Cardinality({c \in st.characters : c.class = "warrior"})>>,
       <<"quests", Cardinality(st.quests)>>,
       <<"levels", Cardinality(st.levels)>>,
       <<"achievements", Cardinality(st.achievements)>>,
       <<"battle_records", Cardinality(st.battle_records)>> >>

\* one entry: the query raises, or its result is compared with expected_min
QueryEntry(st, q) ==
    IF ~HasTables(st, {q[1]}) THEN "raised"
    ELSE IF q[2] >= expected_min THEN "pass" ELSE "fail"

\* an all_passed that a raising query leaves at True
AllPassedUnlessRaised(entries) == \A k \in 1..Len(entries) : entries[k] # "fail"

\* all_passed of test_sample_queries
AllPassed(entries) == \A k \in 1..Len(entries) : entries[k] = "pass"

TestSampleQueries ==
    /\ pc = "test_sample_queries"
    /\ LET qs == SampleQueries(tx)
           entries == [k \in 1..Len(qs) |-> QueryEntry(tx, qs[k])]
       IN  test' = [test EXCEPT !.entries = entries,
                                !.queries = IF AllPassed(entries) THEN "pass" ELSE "fail",
                                !.passed_tests = IF AllPassed(entries) THEN @ + 1 ELSE @]
    /\ pc' = "test_result"
    /\ UNCHANGED <<mode, row, op, command, env, conn, db, tx, call, started, stages, calls, out>>

total_tests == 2

\* a verdict that is content with one passed test
AnyTestPassed(passed) == passed >= 1

\* run_all_tests' verdict
AllTestsPassed(passed) == passed = total_tests

TestResult ==
    /\ pc = "test_result"
    /\ test' = [test EXCEPT !.result = IF AllTestsPassed(test.passed_tests)
                                       THEN "true" ELSE "false"]
    /\ pc' = "disconnect"
    /\ UNCHANGED <<mode, row, op, command, env, conn, db, tx, call, started, stages, calls, out>>

\* sys.exit(0 if success else 1)
TestExitStatus(result) == IF result = "true" THEN 0 ELSE 1

TestExit ==
    /\ pc = "tests_returned"
    /\ out' = [out EXCEPT !.exit_status = TestExitStatus(test.result)]
    /\ pc' = "done"
    /\ UNCHANGED <<mode, row, op, command, env, conn, db, tx, call, started, stages, calls, test>>

(* --------------------------- values of a row --------------------------- *)
\* Python values: a str is a sequence of pieces (literal text or the decimal
\* digits of a number), an int is the integer.  The Chinese literals of the
\* source are written as English words.
PyStr(s) == [type |-> "str", int |-> 0, str |-> s]

PyInt(n) == [type |-> "int", int |-> n, str |-> <<>>]

Digits == <<"0", "1", "2", "3", "4", "5", "6", "7", "8", "9">>

\* the decimal digits of a natural number
RECURSIVE Decimal(_)
Decimal(n) ==
    IF n < 10 THEN <<Digits[n + 1]>>
    ELSE Decimal(n \div 10) \o <<Digits[(n % 10) + 1]>>

\* str(v), which format applies to each argument it substitutes
Str(v) == IF v.type = "int" THEN Decimal(v.int) ELSE v.str

Placeholders == {"{enemy}", "{location}", "{item}", "{count}"}

Key(piece) ==
    CASE piece = "{enemy}" -> "enemy"
      [] piece = "{location}" -> "location"
      [] piece = "{item}" -> "item"
      [] piece = "{count}" -> "count"

\* s.format(enemy=..., location=..., item=..., count=...): every replacement
\* field gives way to the str of its argument
RECURSIVE format(_, _)
format(s, args) ==
    IF s = <<>> THEN <<>>
    ELSE (IF Head(s) \in Placeholders THEN Str(args[Key(Head(s))]) ELSE <<Head(s)>>)
         \o format(Tail(s), args)

\* `sub` occurs in `s`
Contains(s, sub) ==
    \E k \in 0..(Len(s) - Len(sub)) : \A j \in 1..Len(sub) : s[k + j] = sub[j]

\* how far from either end of its range a drawn integer is enumerated
Spread == 1

\* random.randint(a, b): an integer of a..b; enumerated are those within Spread
\* of either end of the range, and the middle one
randint(a, b) ==
    {x \in {a + k : k \in 0..Spread} \cup {b - k : k \in 0..Spread} \cup {(a + b) \div 2} :
        a <= x /\ x <= b}

\* datetime.now(), in hours; every reading is later than 30 days
Clocks == {24 * 30 + 1, 24 * 365}

\* the bands with the mage drawing from the assassin's
StatBandMageAsAssassin(cls) ==
    IF cls = "warrior"
    THEN [health |-> <<120, 150>>, mana |-> <<30, 50>>, attack |-> <<20, 25>>,
          defense |-> <<15, 20>>]
    ELSE [health |-> <<90, 110>>, mana |-> <<40, 60>>, attack |-> <<25, 30>>,
          defense |-> <<10, 15>>]

\* the if / elif / else on class_type: the band each attribute is drawn from
StatBand(cls) ==
    IF cls = "warrior"
    THEN [health |-> <<120, 150>>, mana |-> <<30, 50>>, attack |-> <<20, 25>>,
          defense |-> <<15, 20>>]
    ELSE IF cls = "mage"
    THEN [health |-> <<80, 100>>, mana |-> <<80, 120>>, attack |-> <<10, 15>>,
          defense |-> <<8, 12>>]
    ELSE [health |-> <<90, 110>>, mana |-> <<40, 60>>, attack |-> <<25, 30>>,
          defense |-> <<10, 15>>]

\* the values of the characters INSERT
CharacterRow(class_type, level, experience, health, mana, attack, defense) ==
    [table |-> "characters", class |-> class_type, level |-> level,
     experience |-> experience, health |-> health, max_health |-> health,
     mana |-> mana, max_mana |-> mana, attack |-> attack, defense |-> defense]

\* the draws of one iteration of generate_sample_characters
CharacterValues ==
    /\ pc = "values"
    /\ \E class_type \in classes :
        LET band == StatBand(class_type)
        IN  \E health \in randint(band.health[1], band.health[2]),
               mana \in randint(band.mana[1], band.mana[2]),
               attack \in randint(band.attack[1], band.attack[2]),
               defense \in randint(band.defense[1], band.defense[2]),
               level \in randint(1, 20) :
                \E experience \in randint(0, level * 100) :
                    row' = CharacterRow(class_type, level, experience, health, mana,
                                        attack, defense)
    /\ pc' = "done"
    /\ UNCHANGED <<mode, op, command, env, conn, db, tx, call, started, stages, calls,
                   out, test>>

\* an upper end of the skill level range without the + 1
SkillLevelBoundHalved(level) == Min(level \div 2, 10)

\* min(level // 2 + 1, 10)
SkillLevelBound(level) == Min(level \div 2 + 1, 10)

\* the values _add_skills_to_character binds for one skill of a character of
\* the given level; randint raises ValueError on an empty range
SkillRows(level) ==
    IF randint(1, SkillLevelBound(level)) = {}
    THEN {[table |-> "character_skills", level |-> level, raised |-> TRUE,
           skill_level |-> 0, is_equipped |-> FALSE]}
    ELSE {[table |-> "character_skills", level |-> level, raised |-> FALSE,
           skill_level |-> skill_level, is_equipped |-> is_equipped] :
              skill_level \in randint(1, SkillLevelBound(level)),
              is_equipped \in BOOLEAN}

\* one iteration of the loop of _add_skills_to_character, for every level
\* generate_sample_characters can pass
SkillValues ==
    /\ pc = "values"
    /\ \E level \in 1..20 : \E r \in SkillRows(level) : row' = r
    /\ pc' = "done"
    /\ UNCHANGED <<mode, op, command, env, conn, db, tx, call, started, stages, calls,
                   out, test>>

quest_templates ==
    << [title |-> <<"defeat ", "{enemy}">>,
        description |-> <<"at ", "{location}", " defeat ", "{count}", " of ", "{enemy}">>,
        type |-> "main",
        objectives |-> << [type |-> PyStr(<<"kill">>), target |-> PyStr(<<"{enemy}">>),
                           count |-> PyStr(<<"{count}">>)] >>],
       [title |-> <<"collect ", "{item}">>,
        description |-> <<"collect ", "{count}", " of ", "{item}">>,
        type |-> "side",
        objectives |-> << [type |-> PyStr(<<"collect">>), item |-> PyStr(<<"{item}">>),
                           count |-> PyStr(<<"{count}">>)] >>],
       [title |-> <<"explore ", "{location}">>,
        description |-> <<"explore the area of ", "{location}">>,
        type |-> "exploration",
        objectives |-> << [type |-> PyStr(<<"reach">>),
                           location |-> PyStr(<<"{location}">>)] >>] >>

enemies == {"goblin", "wolf", "bandit", "skeleton", "troll", "dragon"}

locations == {"forest", "cave", "castle", "village", "desert", "snow_mountain"}

items == {"iron_ore", "magic_crystal", "venom_essence", "flame_essence", "gold_coin", "gem"}

\* obj.copy() alone, its values left as the template has them
FormatObjectiveCopyOnly(obj, args) == obj

\* obj.copy() with every str value formatted
FormatObjective(obj, args) ==
    [key \in DOMAIN obj |->
        IF obj[key].type = "str" THEN PyStr(format(obj[key].str, args)) ELSE obj[key]]

\* the values of the quests INSERT, with the draws they were made from
QuestRow(t, enemy, location, item, count) ==
    LET template == quest_templates[t]
        args == [enemy |-> PyStr(<<enemy>>), location |-> PyStr(<<location>>),
                 item |-> PyStr(<<item>>), count |-> PyInt(count)]
    IN  [table |-> "quests",
         drawn |-> [template |-> t, enemy |-> enemy, location |-> location,
                    item |-> item, count |-> count],
         type |-> template.type,
         title |-> format(template.title, args),
         description |-> format(template.description, args),
         objectives |-> [k \in 1..Len(template.objectives) |->
                            FormatObjective(template.objectives[k], args)]]

\* the draws of one iteration of generate_sample_quests
QuestValues ==
    /\ pc = "values"
    /\ \E t \in 1..Len(quest_templates), enemy \in enemies, location \in locations,
          item \in items, count \in randint(1, 5) :
        row' = QuestRow(t, enemy, location, item, count)
    /\ pc' = "done"
    /\ UNCHANGED <<mode, op, command, env, conn, db, tx, call, started, stages, calls,
                   out, test>>

quest_statuses == {"not_started", "in_progress", "completed"}

\* a quest in progress given a completion time as well
QuestProgressRowAlwaysComplete(status, now, days, hours) ==
    LET started_at == now - 24 * days
    IN  [table |-> "character_quests", status |-> status,
         start_time |-> IF status = "not_started" THEN NULL ELSE started_at,
         complete_time |-> IF status = "not_started" THEN NULL ELSE started_at + hours]

\* the values of the character_quests INSERT; times in hours, None as NULL
QuestProgressRow(status, now, days, hours) ==
    LET started_at == now - 24 * days
    IN  [table |-> "character_quests", status |-> status,
         start_time |-> IF status \in {"in_progress", "completed"} THEN started_at ELSE NULL,
         complete_time |-> IF status = "completed" THEN started_at + hours ELSE NULL]

\* the draws of one iteration of generate_sample_quest_progress
QuestProgressValues ==
    /\ pc = "values"
    /\ \E status \in quest_statuses, now \in Clocks, days \in randint(1, 7),
          hours \in randint(1, 24) :
        row' = QuestProgressRow(status, now, days, hours)
    /\ pc' = "done"
    /\ UNCHANGED <<mode, op, command, env, conn, db, tx, call, started, stages, calls,
                   out, test>>

level_statuses == {"locked", "unlocked", "completed", "perfect"}

\* an unlocked level counted as attempted
LevelProgressRowUnlockedAttempted(status, completion_time, score, stars, attempts) ==
    LET done == status \in {"completed", "perfect"}
    IN  [table |-> "character_level_progress", status |-> status,
         completion_time |-> IF done THEN completion_time ELSE 0,
         score |-> IF done THEN score ELSE 0,
         stars |-> IF done THEN stars ELSE 0,
         attempts |-> IF done \/ status = "unlocked" THEN attempts ELSE 0,
         best_time |-> IF done THEN completion_time ELSE 0]

\* the values of the character_level_progress INSERT
LevelProgressRow(status, completion_time, score, stars, attempts) ==
    LET done == status \in {"completed", "perfect"}
    IN  [table |-> "character_level_progress", status |-> status,
         completion_time |-> IF done THEN completion_time ELSE 0,
         score |-> IF done THEN score ELSE 0,
         stars |-> IF done THEN stars ELSE 0,
         attempts |-> IF done THEN attempts ELSE 0,
         best_time |-> IF done THEN completion_time ELSE 0]

\* the draws of one iteration of generate_sample_level_progress
LevelProgressValues ==
    /\ pc = "values"
    /\ \E status \in level_statuses, completion_time \in randint(60, 600),
          score \in randint(1000, 10000), stars \in randint(1, 3),
          attempts \in randint(1, 5) :
        row' = LevelProgressRow(status, completion_time, score, stars, attempts)
    /\ pc' = "done"
    /\ UNCHANGED <<mode, op, command, env, conn, db, tx, call, started, stages, calls,
                   out, test>>

\* an unlock date given to every row
AchievementRowAlwaysDated(unlocked, now, days) ==
    [table |-> "character_achievements", unlocked |-> unlocked,
     unlock_date |-> now - 24 * days]

\* the values of the character_achievements INSERT
AchievementRow(unlocked, now, days) ==
    [table |-> "character_achievements", unlocked |-> unlocked,
     unlock_date |-> IF unlocked THEN now - 24 * days ELSE NULL]

\* the draws of one iteration of generate_sample_achievements
AchievementValues ==
    /\ pc = "values"
    /\ \E unlocked \in BOOLEAN, now \in Clocks, days \in randint(1, 30) :
        row' = AchievementRow(unlocked, now, days)
    /\ pc' = "done"
    /\ UNCHANGED <<mode, op, command, env, conn, db, tx, call, started, stages, calls,
                   out, test>>

(* ---------------------------- specifications --------------------------- *)
\* the steps of one generator call
GeneratorStep ==
    \/ GenBegin
    \/ generate_sample_characters \/ generate_sample_quests \/ generate_sample_levels
    \/ generate_sample_battle_records \/ generate_sample_quest_progress
    \/ generate_sample_level_progress \/ generate_sample_achievements
    \/ generate_sample_save_data \/ generate_sample_logs
    \/ IOError \/ GenCommit \/ GenReturn \/ Except

\* the seeder run from its command line
Init == InitFor("cli")

Next ==
    \/ MainDispatch \/ ExecuteScript \/ Connect \/ Disconnect
    \/ SeedReturned \/ StatsQueries \/ StatsReturned \/ Exit
    \/ NextPhase \/ GeneratorStep

Spec == Init /\ [][Next]_vars

\* a program that connects and calls the seeder's methods itself
InitApi == InitFor("api")

NextApi ==
    \/ Connect \/ ApiGenerate \/ ApiExecuteScript \/ ApiDisconnect
    \/ ExecuteScript \/ GeneratorStep \/ Disconnect

SpecApi == InitApi /\ [][NextApi]_vars

\* a script that connects, generates one batch of characters and disconnects
InitBatch == InitFor("batch")

NextBatch ==
    \/ Connect \/ BatchGenerate
    \/ GenBegin \/ generate_sample_characters
    \/ IOError \/ GenCommit \/ GenReturn \/ Except
    \/ Disconnect

SpecBatch == InitBatch /\ [][NextBatch]_vars

\* the validation harness run from its command line
InitTest == InitFor("test")

NextTest ==
    \/ TestMain \/ Connect \/ TestTableStructure \/ TestSampleQueries
    \/ TestResult \/ Disconnect \/ TestExit

SpecTest == InitTest /\ [][NextTest]_vars

\* either program run from its command line
InitRuns == InitFor("cli") \/ InitFor("test")

NextRuns ==
    \/ MainDispatch \/ ExecuteScript \/ Connect \/ Disconnect
    \/ SeedReturned \/ StatsQueries \/ StatsReturned \/ Exit
    \/ NextPhase \/ GeneratorStep
    \/ TestMain \/ TestTableStructure \/ TestSampleQueries \/ TestResult \/ TestExit

SpecRuns == InitRuns /\ [][NextRuns]_vars

\* a script that connects, calls test_table_structure twice and disconnects
InitCheck == InitFor("check")

NextCheck == Connect \/ TestTableStructure \/ Disconnect

SpecCheck == InitCheck /\ [][NextCheck]_vars

\* the seeder run from its command line with the stats command
InitStats == InitFor("stats")

NextStats ==
    \/ MainDispatch \/ Connect \/ StatsQueries \/ Disconnect \/ StatsReturned \/ Exit

SpecStats == InitStats /\ [][NextStats]_vars

\* the values the generators compute for a row, for every enumerated draw
InitValues == InitFor("values")

NextValues ==
    \/ CharacterValues \/ QuestValues \/ QuestProgressValues
    \/ LevelProgressValues \/ AchievementValues \/ SkillValues

SpecValues == InitValues /\ [][NextValues]_vars

(* ------------------------------ properties ----------------------------- *)
Players(st) == {c.id : c \in {x \in st.characters : x.is_player}}

SeedingRunEnded == mode = "cli" /\ pc = "done"

\* C1: the init command, given a readable and valid script and a store file that
\* can be opened, applies the script to the store and reports success.
C1_InitAppliesScript ==
    (SeedingRunEnded /\ command = "init" /\ env.script_ok = "yes" /\ db.readable)
        => (out.init_report = "success" /\ expected_tables \subseteq db.tables)

\* C2: the full command, given a valid script and a reachable store, runs
\* init, then seed, then stats; seed and stats start only after init succeeded.
C2_FullRunsThreeStages ==
    /\ (SeedingRunEnded /\ command = "full" /\ env.script_ok = "yes" /\ db.readable)
            => stages = <<"init", "seed", "stats">>
    /\ (mode = "cli" /\ command = "full" /\ Len(stages) > 1)
            => out.init_report = "success"

\* the phases of a run whose rows are only ever added, with the table they fill
AppendOnly ==
    << <<"characters", NumCharacters>>, <<"quests", NumRoots>>, <<"levels", NumRoots>>,
       <<"battle_records", NumDependents>> >>

RowCount(st, g) ==
    CASE g = "characters" -> Cardinality(st.characters)
      [] g = "quests" -> Cardinality(st.quests)
      [] g = "levels" -> Cardinality(st.levels)
      [] OTHER -> Cardinality(st.battle_records)

FailedInPhase == op = "generate_all" /\ pc = "seed_returned" /\ out.seed_result = "false"
                    /\ call.gen # "none"

\* C3: when a phase of generate_all_sample_data fails, the store file holds
\* exactly what it held when that phase began: none of the phase's writes, and
\* all the rows of the phases that committed before it; no phase was called twice.
C3_FailedPhaseRolledBack ==
    FailedInPhase =>
        /\ db = call.pre
        /\ \A j, k \in 1..Len(started) : started[j] = started[k] => j = k
        /\ \A k \in 1..Len(AppendOnly) :
              k < Len(started) => RowCount(db, AppendOnly[k][1]) >= AppendOnly[k][2]

C3_Witness ==
    /\ FailedInPhase
    /\ call.gen = "battle_records"
    /\ call.i = call.count
    /\ call.count >= 1
    /\ Cardinality(db.characters) = NumCharacters

\* C4: a seeding run calls its phases in the fixed order; when a phase starts
\* reading its pools every write of the earlier phases is committed; and after
\* a phase failed no further phase is called.
C4_PhasesInOrderAndCommitted ==
    /\ [](/\ Len(started) <= Len(PhaseOrder)
          /\ \A k \in 1..Len(started) : started[k] = PhaseOrder[k]
          /\ (op = "generate_all" /\ pc = "gen_begin") => tx = db)
    /\ [][(pc = "raised" \/ out.seed_result = "false") => started' = started]_vars

C4_Witness ==
    /\ op = "generate_all"
    /\ pc = "gen_begin"
    /\ call.gen = "quest_progress"
    /\ Cardinality(db.quests) = NumRoots
    /\ Cardinality(db.battle_records) = NumDependents

\* C5: a character-generation call with count >= 1 on a store without a player
\* character leaves exactly one player character, the first of the batch; no
\* later character of a batch carries the player flag.
C5_FirstOfBatchIsThePlayer ==
    call.gen = "characters" =>
        /\ \A k \in 2..Len(call.batch) :
              \A c \in tx.characters : c.id = call.batch[k] => ~c.is_player
        /\ (pc = "gen_done" /\ call.count >= 1 /\ Players(call.pre) = {})
              => Players(db) = {call.batch[1]}

C5_Witness ==
    /\ call.gen = "characters"
    /\ pc = "gen_done"
    /\ Len(call.batch) >= 2
    /\ Players(call.pre) = {}
    /\ Players(db) = {call.batch[1]}

\* C6: every save slot refers to a player character; the save-slot generator
\* called on a store whose characters table holds no player character returns
\* normally, logs the skip and writes nothing; called with count >= 1 on a store with a player
\* character it writes at least one slot.
C6_SaveSlotsBelongToPlayers ==
    /\ \A s \in tx.save_data \cup db.save_data : s.character_id \in Players(tx)
    /\ (call.gen = "save_data" /\ HasTables(call.pre, {"characters"})
           /\ Players(call.pre) = {} /\ pc \in {"gen_loop", "gen_done", "raised"})
          => (pc = "gen_done" /\ out.skipped /\ tx = call.pre /\ db = call.pre)
    /\ (call.gen = "save_data" /\ pc = "gen_done" /\ call.count >= 1
           /\ Players(call.pre) # {})
          => (~out.skipped /\ db.save_data # {}
              /\ \E s \in db.save_data : s.slot_id = 1)

C6_Witness ==
    /\ call.gen = "save_data"
    /\ pc = "gen_done"
    /\ call.count >= 1
    /\ db.save_data # {}
    /\ \E c \in db.characters : ~c.is_player

Dependents == {"battle_records", "quest_progress", "level_progress", "achievements", "logs"}

\* C7: a dependent phase asked for at least one row never fails because a pool
\* it draws from is empty.
C7_EmptyPoolDoesNotFail ==
    ~(pc = "raised" /\ call.gen \in Dependents /\ call.count >= 1
        /\ out.error = "IndexError")

\* C8: the seeder process ends with status 0 exactly when the command it ran
\* did not fail.
C8_ExitStatusTellsFailure ==
    SeedingRunEnded => (out.exit_status = 0 <=> out.error = "none")

SchemaCheckPasses(st) == st.readable /\ expected_tables \subseteq st.tables

EveryCardinalityCheckPasses(st) ==
    /\ HasTables(st, {"characters", "quests", "levels", "achievements", "battle_records"})
    /\ \E c \in st.characters : c.class = "warrior"
    /\ st.quests # {}
    /\ st.levels # {}
    /\ st.achievements # {}
    /\ st.battle_records # {}

\* C9: the harness ends with status 0 when the store file exists, opens, and
\* passes the schema check and every cardinality check; with status 1 otherwise.
C9_HarnessVerdict ==
    (mode = "test" /\ pc = "done") =>
        /\ out.exit_status \in {0, 1}
        /\ out.exit_status = 0 <=> test.result = "true"
        /\ out.exit_status = 0 <=>
              (/\ env.file_exists = "yes"
               /\ env.store_ok = "yes"
               /\ SchemaCheckPasses(db)
               /\ EveryCardinalityCheckPasses(db))

C9_Witness ==
    /\ mode = "test"
    /\ pc = "done"
    /\ out.exit_status = 0
    /\ test.passed_tests = total_tests

SkillsOf(st, cid) == {r \in st.character_skills : r.character_id = cid}

\* C10: every character-skill row pairs a character with a skill of the
\* character's class whose level requirement the character meets; no character
\* has more than five; a character without an eligible skill has none.
C10_SkillRowsAreEligible ==
    /\ \A r \in tx.character_skills :
          \E c \in tx.characters : \E k \in 1..Len(tx.skills) :
              /\ c.id = r.character_id
              /\ tx.skills[k].id = r.skill_id
              /\ tx.skills[k].level_requirement <= c.level
              /\ tx.skills[k].class_requirement = c.class
    /\ \A c \in tx.characters :
          /\ Cardinality(SkillsOf(tx, c.id)) <= 5
          /\ (\A k \in 1..Len(tx.skills) :
                 ~(tx.skills[k].class_requirement = c.class
                   /\ tx.skills[k].level_requirement <= c.level))
                => SkillsOf(tx, c.id) = {}

C10_Witness ==
    /\ call.gen = "characters"
    /\ pc = "gen_done"
    /\ \E c \in db.characters :
          /\ Cardinality(SkillsOf(db, c.id)) = 5
          /\ Len(EligibleSkills(db, c.class, c.level)) > 5
    /\ \E c \in db.characters : SkillsOf(db, c.id) = {}

EquipmentOf(st, cid) == {r \in st.character_equipment : r.character_id = cid}

\* C11: every character-equipment row is the only one of its character and
\* slot, sits in the slot of its equipment, and its equipment asks for a level
\* not above the character's and for no class or the character's class.
C11_EquipmentRowsAreEligible ==
    \A r \in tx.character_equipment :
        /\ \A r2 \in tx.character_equipment :
              (r2.character_id = r.character_id /\ r2.slot = r.slot) => r2 = r
        /\ \E c \in tx.characters : \E e \in tx.equipment :
              /\ c.id = r.character_id
              /\ e.id = r.equipment_id
              /\ e.slot = r.slot
              /\ e.level_requirement <= c.level
              /\ e.class_requirement \in {"none", c.class}

C11_Witness ==
    /\ call.gen = "characters"
    /\ pc = "gen_done"
    /\ \E c \in db.characters : \E r \in EquipmentOf(db, c.id) : \E e \in db.equipment :
          /\ c.id \in {call.batch[k] : k \in 1..Len(call.batch)}
          /\ e.id = r.equipment_id
          /\ e.class_requirement = c.class
    /\ \E c \in db.characters : \E e \in db.equipment :
          /\ c.id \in {call.batch[k] : k \in 1..Len(call.batch)}
          /\ e.class_requirement = c.class
          /\ e.level_requirement > c.level
          /\ \A r \in EquipmentOf(db, c.id) : r.slot # e.slot

\* C12: a generated character has a row for a slot exactly when some equipment
\* is eligible for it in that slot; a slot without eligible equipment raises
\* nothing, later slots are still filled and the character still gets its
\* inventory and statistics rows.
C12_EmptySlotIsSkipped ==
    /\ \A c \in tx.characters :
          /\ \A k \in 1..Len(slots) :
                (\E r \in EquipmentOf(tx, c.id) : r.slot = slots[k])
                    <=> EligibleEquipment(tx, slots[k], c.class, c.level) # {}
          /\ \A key \in stat_keys :
                [character_id |-> c.id, stat_key |-> key] \in tx.statistics
          /\ tx.items # {} => \E r \in tx.character_inventory : r.character_id = c.id
    /\ (call.gen = "characters" /\ HasTables(call.pre, expected_tables))
          => out.error \in {"none", "io_error"}

C12_Witness ==
    /\ call.gen = "characters"
    /\ pc = "gen_done"
    /\ \E c \in db.characters :
          /\ c.id \in {call.batch[k] : k \in 1..Len(call.batch)}
          /\ \E r \in EquipmentOf(db, c.id) : r.slot = "weapon"
          /\ \A r \in EquipmentOf(db, c.id) : r.slot # "chest"
          /\ \E r \in EquipmentOf(db, c.id) : r.slot = "ring"
          /\ [character_id |-> c.id, stat_key |-> "total_battles"] \in db.statistics

\* C13: a quest-progress row has no start_time exactly when its status is
\* not_started, has a complete_time exactly when its status is completed, and
\* a complete_time is later than the start_time.
C13_QuestProgressTimes ==
    row.table = "character_quests" =>
        /\ row.start_time = NULL <=> row.status = "not_started"
        /\ row.complete_time # NULL <=> row.status = "completed"
        /\ row.complete_time # NULL => row.complete_time > row.start_time

C13_Witness ==
    /\ row.table = "character_quests"
    /\ row.status = "completed"
    /\ row.start_time # NULL
    /\ row.complete_time = row.start_time + 1

\* C14: a level-progress row whose status is locked or unlocked has 0 in
\* completion_time, score, stars, attempts and best_time; a row with a value
\* other than 0 in one of them is completed or perfect.
C14_LevelProgressZeroUnlessDone ==
    row.table = "character_level_progress" =>
        /\ row.status \in {"locked", "unlocked"} =>
              /\ row.completion_time = 0
              /\ row.score = 0
              /\ row.stars = 0
              /\ row.attempts = 0
              /\ row.best_time = 0
        /\ (row.completion_time # 0 \/ row.score # 0 \/ row.stars # 0
                \/ row.attempts # 0 \/ row.best_time # 0)
              => row.status \in {"completed", "perfect"}

C14_Witness ==
    /\ row.table = "character_level_progress"
    /\ row.status = "unlocked"
    /\ row.attempts = 0

\* C15: a character-achievement row has an unlock_date exactly when it is
\* unlocked.
C15_UnlockDateIffUnlocked ==
    row.table = "character_achievements" =>
        (row.unlock_date # NULL <=> row.unlocked)

C15_Witness ==
    /\ row.table = "character_achievements"
    /\ ~row.unlocked
    /\ row.unlock_date = NULL

\* C16: a battle record carries a level only when its type is "level", and
\* the level it carries is one of the store's levels; records of the other
\* types carry none.
C16_LevelOnlyOnLevelBattles ==
    \A b \in tx.battle_records :
        /\ b.level_id # NULL => (b.battle_type = "level" /\ b.level_id \in tx.levels)
        /\ b.battle_type # "level" => b.level_id = NULL

C16_Witness ==
    /\ call.gen = "battle_records"
    /\ pc = "gen_done"
    /\ call.count >= 1
    /\ \E b \in db.battle_records \ call.pre.battle_records :
          b.battle_type = "level" /\ b.level_id \in call.pre.levels

RootTable(st, g) ==
    CASE g = "characters" -> st.characters
      [] g = "quests" -> st.quests
      [] g = "levels" -> st.levels

\* C17: a root generator called with count returns with exactly count more
\* rows in its table than before the call, for count = 0 too.
C17_RootGeneratorsAddCountRows ==
    (pc = "gen_done" /\ call.gen \in {"characters", "quests", "levels"})
        => Cardinality(RootTable(db, call.gen))
             = Cardinality(RootTable(call.pre, call.gen)) + call.count

C17_Witness ==
    /\ pc = "gen_done"
    /\ call.gen = "quests"
    /\ call.count >= 1
    /\ call.pre.quests # {}
    /\ Cardinality(db.quests) = Cardinality(call.pre.quests) + call.count

\* C18: a quest made from the collect template with item v and count n has one
\* objective, of type collect, whose item is v and whose count is the number n,
\* and a description that contains v and n.
C18_CollectObjectiveCountIsNumber ==
    (row.table = "quests" /\ quest_templates[row.drawn.template].type = "side") =>
        /\ Len(row.objectives) = 1
        /\ row.objectives[1].type = PyStr(<<"collect">>)
        /\ row.objectives[1].item = PyStr(<<row.drawn.item>>)
        /\ row.objectives[1].count = PyInt(row.drawn.count)
        /\ Contains(row.description, <<row.drawn.item>>)
        /\ Contains(row.description, Decimal(row.drawn.count))

\* C19: the attributes of a character row lie in the band of the row's class,
\* its level in 1..20 and its experience in 0..level*100.
C19_AttributesInClassBand ==
    row.table = "characters" =>
        /\ row.class = "warrior" =>
              /\ row.health \in 120..150 /\ row.mana \in 30..50
              /\ row.attack \in 20..25 /\ row.defense \in 15..20
        /\ row.class = "mage" =>
              /\ row.health \in 80..100 /\ row.mana \in 80..120
              /\ row.attack \in 10..15 /\ row.defense \in 8..12
        /\ row.class = "assassin" =>
              /\ row.health \in 90..110 /\ row.mana \in 40..60
              /\ row.attack \in 25..30 /\ row.defense \in 10..15
        /\ row.class \in {"warrior", "mage", "assassin"}
        /\ row.level \in 1..20
        /\ row.experience \in 0..(row.level * 100)

C19_Witness ==
    /\ row.table = "characters"
    /\ row.class = "mage"
    /\ row.health = 100
    /\ row.mana = 80
    /\ row.level = 20
    /\ row.experience = 2000

C21_StatsIsReadOnly ==
    [][(op = "show_stats") => (db' = db /\ tx' = tx)]_vars

C21_Witness ==
    /\ op = "show_stats"
    /\ pc = "stats_returned"
    /\ out.stats = "error"
    /\ "characters" \in db.tables
    /\ db.tables # {}
    /\ db.characters # {}
    /\ db.battle_records # {}

\* C25: once test_sample_queries has run, each of its five entries has been
\* evaluated on its own: an entry passed exactly when its query ran and counted
\* at least expected_min rows, a query that raised is a failed entry and the
\* entries after it are evaluated all the same, and the check passed exactly
\* when every entry passed.
C25_EveryEntryJudgedAlone ==
    LET Counted(t) ==
            IF t = "characters"
            THEN Cardinality({c \in tx.characters : c.class = "warrior"})
            ELSE Cardinality(tx[t])
        tables == <<"characters", "quests", "levels", "achievements", "battle_records">>
    IN  (test.queries # "none") =>
            /\ Len(test.entries) = 5
            /\ \A k \in 1..5 :
                   /\ test.entries[k] \in {"pass", "fail", "raised"}
                   /\ (test.entries[k] = "pass") <=>
                          (tx.readable /\ tables[k] \in tx.tables /\ Counted(tables[k]) >= 1)
                   /\ (test.entries[k] = "raised") <=>
                          ~(tx.readable /\ tables[k] \in tx.tables)
            /\ (test.queries = "pass") <=> (\A k \in 1..5 : test.entries[k] = "pass")

C25_Witness ==
    /\ test.queries = "fail"
    /\ test.entries[2] = "raised"
    /\ test.entries[1] = "pass"
    /\ test.entries[3] = "pass"
    /\ test.entries[4] = "pass"
    /\ test.entries[5] = "pass"

\* C23: a generated quest has as many objectives as its template and the
\* template's type; wherever the template's title, description or an objective
\* field names a token, the rendered text holds the value drawn for that token
\* in this iteration, and no rendered text holds a placeholder.
C23_QuestRenderedFromOneDraw ==
    LET template == quest_templates[row.drawn.template]
        Drawn(p) == IF p = "{count}" THEN Decimal(row.drawn.count)
                    ELSE <<row.drawn[Key(p)]>>
        Tokens(s) == {s[k] : k \in 1..Len(s)} \cap Placeholders
        Rendered(from, to) ==
            /\ \A p \in Tokens(from) : Contains(to, Drawn(p))
            /\ Tokens(to) = {}
    IN  (row.table = "quests") =>
            /\ Len(row.objectives) = Len(template.objectives)
            /\ row.type = template.type
            /\ Rendered(template.title, row.title)
            /\ Rendered(template.description, row.description)
            /\ \A k \in 1..Len(template.objectives) :
                   /\ DOMAIN row.objectives[k] = DOMAIN template.objectives[k]
                   /\ \A key \in DOMAIN template.objectives[k] :
                          template.objectives[k][key].type = "str" =>
                              /\ row.objectives[k][key].type = "str"
                              /\ Rendered(template.objectives[k][key].str,
                                          row.objectives[k][key].str)

C23_Witness ==
    /\ row.table = "quests"
    /\ row.type = "main"
    /\ row.drawn.count = 5
    /\ row.drawn.enemy = "dragon"
    /\ row.drawn.location = "cave"
    /\ row.title = <<"defeat ", "dragon">>
    /\ row.description = <<"at ", "cave", " defeat ", "5", " of ", "dragon">>
    /\ row.objectives[1].target.str = <<"dragon">>

\* C24: the skill_level bound for a character of level L in 1..20 is at least
\* 1, so that drawing it never fails, and lies in 1 .. min(L div 2 + 1, 10).
C24_SkillLevelInRange ==
    (row.table = "character_skills") =>
        /\ row.level \in 1..20
        /\ ~row.raised
        /\ row.skill_level >= 1
        /\ row.skill_level <= (row.level \div 2) + 1
        /\ row.skill_level <= 10

C24_Witness ==
    /\ row.table = "character_skills"
    /\ row.level = 20
    /\ row.skill_level = 10
    /\ ~row.raised

\* the rows of the dependent tables of a store refer to rows of the store
ReferencesResolve(st) ==
    /\ \A r \in st.battle_records :
           /\ r.character_id \in Ids(st.characters)
           /\ r.level_id # NULL => r.level_id \in st.levels
    /\ \A r \in st.character_quests :
           r.character_id \in Ids(st.characters) /\ r.quest_id \in st.quests
    /\ \A r \in st.character_level_progress :
           r.character_id \in Ids(st.characters) /\ r.level_id \in st.levels
    /\ \A r \in st.character_achievements :
           r.character_id \in Ids(st.characters) /\ r.achievement_id \in st.achievements
    /\ \A r \in st.game_logs :
           r.character_id # NULL => r.character_id \in Ids(st.characters)

\* C27: whatever generation phases have run, every battle record,
\* quest-progress, level-progress and achievement row and every log row with a
\* character refers to a character of the store, and the quest, level and
\* achievement ids they carry are rows of the quests, levels and achievements
\* tables; in the file and as the connection sees it.
C27_DependentsReferToStoredRows ==
    ReferencesResolve(db) /\ ReferencesResolve(tx)

C27_Witness ==
    /\ pc = "gen_done"
    /\ call.gen \in {"quest_progress", "level_progress", "achievements", "logs"}
    /\ call.pre.characters # {}
    /\ \/ db.character_quests # call.pre.character_quests
       \/ db.character_level_progress # call.pre.character_level_progress
       \/ db.character_achievements # call.pre.character_achievements
       \/ \E r \in db.game_logs \ call.pre.game_logs : r.character_id # NULL

\* C22: when the store cannot be opened, generate_all_sample_data returns False
\* with no phase started and the harness returns False with no check run, and
\* no step of either run changes the store.
C22_ConnectionFailureIsFatal ==
    /\ []((op = "generate_all" /\ env.store_ok = "no") =>
              /\ out.seed_result = "false"
              /\ started = <<>>
              /\ pc \in {"seed_returned", "connect", "exit", "done"})
    /\ []((op = "tests" /\ env.store_ok = "no") =>
              /\ test.result = "false"
              /\ test.schema = "none"
              /\ test.queries = "none"
              /\ test.entries = <<>>
              /\ test.passed_tests = 0
              /\ pc \in {"tests_returned", "done"})
    /\ [][(op \in {"generate_all", "tests"} /\ env'.store_ok = "no") =>
              (db' = db /\ tx' = db)]_vars

C22_Witness ==
    /\ op = "generate_all"
    /\ env.store_ok = "no"
    /\ pc = "seed_returned"
    /\ out.seed_result = "false"
    /\ "characters" \in db.tables
    /\ conn = "none"

\* C26: a run of generate_all_sample_data, show_database_stats or
\* run_all_tests connects once, at its start and with no connection open; its
\* phases and checks execute with the connection open; and when the run has
\* returned the connection is not open, whether the run succeeded or not.
C26_OneConnectionPerRun ==
    /\ [](pc \in {"seed_returned", "stats_returned", "tests_returned", "exit", "done"} =>
              conn # "open")
    /\ [](pc \in {"gen_begin", "gen_loop", "stats_queries",
                  "test_table_structure", "test_sample_queries"} =>
              conn = "open")
    /\ [][(conn' = "open" /\ conn # "open") => pc = "connect"]_vars
    /\ [][(pc' = "connect" /\ pc # "connect") =>
              (conn # "open" /\ pc \in {"main", "execute_script", "seed_returned", "test_main"})]_vars

C26_Witness ==
    /\ op = "generate_all"
    /\ pc = "seed_returned"
    /\ out.seed_result = "false"
    /\ started # <<>>
    /\ conn = "closed"
====
